---- MODULE Spec2Model ----
(***************************************************************************)
(* Two detention ponds in series (final.py).                               *)
(*                                                                         *)
(* The script fixes the pond parameters, builds a time grid, integrates    *)
(* the two-pond ODE with scipy's odeint, clamps the returned trajectory to *)
(* [0, H] and derives/plots the discharge series.                          *)
(*                                                                         *)
(* Units of the fixed-point rendering of the script's floats:              *)
(*   time       ticks, TimeScale ticks per second (the reference grid of   *)
(*              1000 samples over 288001 s is exact in ticks)              *)
(*   depth      millimetres (DepthScale per metre)                         *)
(*   diameter   tenths of a metre                                          *)
(*   area       square metres                                              *)
(*   inflow     1/FlowScale m^3/s (q_i_1 is exact in this unit)            *)
(*   flow in f  litres per second                                          *)
(*   dh/dt      micrometres per second                                     *)
(*   sqrt arg   2*9.8*h in units of 1e-4 m^2/s^2                           *)
(***************************************************************************)
EXTENDS Integers, Sequences, FiniteSets, TLC

VARIABLES
    par,        \* the parameters D1, D2, A1, A2, H1, H2, h1_0, h2_0 (lines 51-56)
    pc,         \* position of the script
    err,        \* the exception that ended the script, "none" otherwise
    hstep,      \* odeint: the solver's step size in seconds
    ts,         \* odeint: the solver's current time, in ticks
    y,          \* odeint: the solver's current solution <<h1, h2>>, unclamped
    H,          \* the rows odeint has written, as it returned them
    istate,     \* odeint: 1 while the integration succeeds, -1 once it failed
    lastEval,   \* the most recent evaluation of f
    inflowSeen, \* some evaluation of f so far saw a nonzero inflow
    h1, h2,     \* the columns of H (line 62), clamped in place (lines 65-73)
    i,          \* the clamp loop's index (line 65), 0-based
    qi, qo,     \* the discharge series of lines 84-85
    qoArg,      \* the arguments q_o_2 handed to math.sqrt
    fn, arg, res \* a function applied on its own: its name, input and result

solverVars == <<hstep, ts, y, H, istate, lastEval, inflowSeen>>
pipeVars == <<h1, h2, i, qi, qo, qoArg>>
funVars == <<fn, arg, res>>
vars == <<par, pc, err, solverVars, pipeVars, funVars>>

----------------------------------------------------------------------------
\* Arithmetic helpers.

Min(a, b) == IF a < b THEN a ELSE b

Max(a, b) == IF a > b THEN a ELSE b

Abs(a) == IF a < 0 THEN -a ELSE a

\* Division rounding towards zero, for any nonzero divisor.
Div(a, b) ==
    IF (a >= 0) = (b > 0)
    THEN Abs(a) \div Abs(b)
    ELSE -(Abs(a) \div Abs(b))

RECURSIVE Newton(_, _)
Newton(x, g) ==
    LET n == (g + x \div g) \div 2
    IN  IF n >= g THEN g ELSE Newton(x, n)

\* math.sqrt on a non-negative fixed-point argument (floor of the root).
isqrt(x) == IF x = 0 THEN 0 ELSE Newton(x, x)

----------------------------------------------------------------------------
\* Scales and the script's constants.

NumSamples == 1000

TimeScale == NumSamples - 1

DepthScale == 10 * 100

t0 == 3600

t1 == 12600

t2 == 21600

SlopeDen == 4500

FlowScale == SlopeDen * TimeScale

Stop == 80 * 3600 + 1

PiNum == 355

PiDen == 113

\* 2 * 9.8, in tenths
TwoG == 2 * 98

RefParams ==
    [D1 |-> 2, D2 |-> 2, A1 |-> 2000, A2 |-> 1000,
     H1 |-> 5 * DepthScale, H2 |-> 4 * DepthScale, h1_0 |-> 0, h2_0 |-> 0]

----------------------------------------------------------------------------
\* The time grid (line 59).

\* np.linspace(start, stop, num): step = (stop - start) / (num - 1), the
\* samples start + k * step, and the last sample set to stop itself.
linspace(start, stop, num) ==
    LET step == (stop - start) \div (num - 1)
    IN  [k \in 1..num |-> IF k = num THEN stop ELSE start + (k - 1) * step]

\* Number of grid samples carried through the pipeline.
GridSamples == 3

\* t = np.linspace(0, 80 * 3600 + 1, ...), in ticks
t == linspace(0, Stop * TimeScale, GridSamples)

N == Len(t)

----------------------------------------------------------------------------
\* q_i_1 (lines 12-18): the inflow hydrograph, t in ticks, result in
\* 1/FlowScale m^3/s.

\* 1 / 4500 * (t - 3600)
RampUp(tt) == (FlowScale \div (SlopeDen * TimeScale)) * (tt - t0 * TimeScale)

\* The ramp-down anchored at t1 instead of t2.
RampDown_AnchoredAtT1(tt) ==
    -(FlowScale \div (SlopeDen * TimeScale)) * (tt - t1 * TimeScale)

\* -1 / 4500 * (t - 21600)
RampDown(tt) == -(FlowScale \div (SlopeDen * TimeScale)) * (tt - t2 * TimeScale)

\* q_i_1 with the lower bound of the first branch left out.
q_i_1_NoLowerBound(tt) ==
    IF tt < t1 * TimeScale THEN RampUp(tt)
    ELSE IF t1 * TimeScale <= tt /\ tt < t2 * TimeScale THEN RampDown(tt)
    ELSE 0

q_i_1(tt) ==
    IF t0 * TimeScale <= tt /\ tt < t1 * TimeScale THEN RampUp(tt)
    ELSE IF t1 * TimeScale <= tt /\ tt < t2 * TimeScale THEN RampDown(tt)
    ELSE 0

----------------------------------------------------------------------------
\* f (lines 29-42): the right-hand side of the ODE.

\* The clamp of f with the floor at 0 left out.
RhsClamp_NoFloor(h, Hmax) == IF h > Hmax THEN Hmax ELSE h

\* The clamp of f with the cap at the maximum depth left out.
RhsClamp_NoCap(h, Hmax) == IF h < 0 THEN 0 ELSE h

\* Lines 32-39 for one pond: cap at the maximum depth, then floor at 0.
RhsClamp(h, Hmax) ==
    LET capped == IF h > Hmax THEN Hmax ELSE h
    IN  IF capped < 0 THEN 0 ELSE capped

\* The argument of math.sqrt with a sum in place of the product.
SqrtArg_Sum(h) == TwoG + h

\* The argument 2 * 9.8 * h of math.sqrt.
SqrtArg(h) == TwoG * h

\* np.pi * D ** 2 / 4 * math.sqrt(a), in litres per second: with D in tenths
\* of a metre and the root in 1e-2 m/s, 1000 * pi * (D/10)^2 / 4 * root/100
\* = pi * D^2 * root / 40.
Orifice(a, D) == (PiNum * D * D * isqrt(a)) \div (PiDen * 40)

\* q_i_1(t) inside f, in litres per second: 1000 / (4500 * TimeScale) of the
\* value in 1/FlowScale m^3/s.
InflowLps(tt) == (2 * q_i_1(tt)) \div (9 * TimeScale)

\* The evaluation f(y, t, D1, D2, A1, A2, H1, H2).  exc names the exception
\* the evaluation raises: math.sqrt of a negative number is a ValueError, a
\* float divided by the integer 0 a ZeroDivisionError; the expressions are
\* evaluated in the order of lines 40-41.  d is the returned pair
\* [dh1_dt, dh2_dt] in micrometres per second: 1000 * litres per second / m^2.
f(yy, tt, p) ==
    LET c1 == RhsClamp(yy[1], p.H1)
        c2 == RhsClamp(yy[2], p.H2)
        a1 == SqrtArg(c1)
        a2 == SqrtArg(c2)
        qin == InflowLps(tt)
        exc == IF a1 < 0 THEN "ValueError"
               ELSE IF p.A1 = 0 THEN "ZeroDivisionError"
               ELSE IF a2 < 0 THEN "ValueError"
               ELSE IF p.A2 = 0 THEN "ZeroDivisionError"
               ELSE "none"
    IN  [y |-> yy, t |-> tt, c |-> <<c1, c2>>, a |-> <<a1, a2>>,
         q |-> q_i_1(tt), exc |-> exc,
         d |-> IF exc # "none" THEN <<0, 0>>
               ELSE <<Div(1000 * (qin - Orifice(a1, p.D1)), p.A1),
                      Div(1000 * (Orifice(a1, p.D1) - Orifice(a2, p.D2)), p.A2)>>]

\* q_o_2 (lines 46-47): the argument of math.sqrt and the outflow.
q_o_2(h, D) ==
    [a |-> SqrtArg(h),
     q |-> IF SqrtArg(h) < 0 THEN 0 ELSE Orifice(SqrtArg(h), D)]

----------------------------------------------------------------------------
\* The trajectory clamp with the cap at the maximum depth left out.
TrajClamp_NoCap(h, Hmax) == IF h < 0 THEN 0 ELSE h

\* The trajectory clamp (lines 65-73) for one pond: floor at 0, then cap at
\* the maximum depth.
TrajClamp(h, Hmax) ==
    LET floored == IF h < 0 THEN 0 ELSE h
    IN  IF floored > Hmax THEN Hmax ELSE floored

----------------------------------------------------------------------------
\* The pond parameters the runs are made with.

\* Parameter values satisfying the constraints of the data model: the
\* script's own (lines 51-56) and a second, smaller pair of ponds.
ValidParams ==
    {RefParams,
     [D1 |-> 3, D2 |-> 2, A1 |-> 1000, A2 |-> 1000,
      H1 |-> 2 * DepthScale, H2 |-> 3 * DepthScale,
      h1_0 |-> DepthScale, h2_0 |-> 0]}

\* The script's values with one of them replaced by a value that violates
\* the constraints.
InvalidParams ==
    {[RefParams EXCEPT !.D1 = 0],
     [RefParams EXCEPT !.D2 = -2],
     [RefParams EXCEPT !.A1 = 0],
     [RefParams EXCEPT !.A2 = -1000],
     [RefParams EXCEPT !.H1 = 0],
     [RefParams EXCEPT !.H2 = -DepthScale],
     [RefParams EXCEPT !.h1_0 = -DepthScale],
     [RefParams EXCEPT !.h2_0 = 5 * DepthScale]}

\* IC = [h1_0, h2_0] (line 60)
IC == <<par.h1_0, par.h2_0>>

----------------------------------------------------------------------------
\* odeint (line 61).  The solver is a library: it is modelled as a stepper
\* that evaluates f at its solution points and advances along the returned
\* derivative, that may also evaluate f at trial states and times off the
\* grid, and that may give up, in which case it warns and returns the rows
\* it has, the others never written.

\* Step sizes the solver may settle on, in seconds.
StepSizes == {1800, 9000, Stop}

\* Offsets of a trial state from the solution point, per pond.
ProbeOffsets == {-6 * DepthScale, 0, 6 * DepthScale}

\* Times of a trial evaluation, relative to the solver's time.
ProbeTimes == {ts, ts + (hstep * TimeScale) \div 2, ts + hstep * TimeScale}

\* Values found in rows of the output array the solver never wrote.
Garbage == {-DepthScale, DepthScale, 9 * DepthScale}

NoEval == [kind |-> "none"]

Eval(kind, yy, tt) == [kind |-> kind, e |-> f(yy, tt, par)]

\* The script stops with an exception raised inside f.
Raise(ev) ==
    /\ pc' = "error"
    /\ err' = ev.e.exc
    /\ lastEval' = ev
    /\ UNCHANGED <<par, hstep, ts, y, H, istate, inflowSeen, pipeVars, funVars>>

\* odeint is called: the solver starts at IC and the first time of the grid,
\* and the first row of the output is IC.
OdeintBegin ==
    /\ pc = "start"
    /\ \E hs \in StepSizes : hstep' = hs
    /\ pc' = "odeint"
    /\ ts' = t[1]
    /\ y' = IC
    /\ H' = <<IC>>
    /\ UNCHANGED <<par, err, istate, lastEval, inflowSeen, pipeVars, funVars>>

\* One step of the solver: f at the solution point, and the solution
\* advanced along the derivative up to the next output time at most
\* (micrometres per second times seconds, in millimetres).
OdeintAdvance ==
    /\ pc = "odeint"
    /\ Len(H) < N
    /\ ts < t[Len(H) + 1]
    /\ LET ev == Eval("step", y, ts)
           dt == Min(hstep * TimeScale, t[Len(H) + 1] - ts)
           secs == dt \div TimeScale
       IN  IF ev.e.exc # "none" THEN Raise(ev)
           ELSE /\ y' = <<y[1] + Div(ev.e.d[1] * secs, 1000),
                          y[2] + Div(ev.e.d[2] * secs, 1000)>>
                /\ ts' = ts + dt
                /\ lastEval' = ev
                /\ inflowSeen' = (inflowSeen \/ ev.e.q # 0)
                /\ UNCHANGED <<par, pc, err, hstep, H, istate, pipeVars, funVars>>

\* A trial evaluation of f, at a state and a time of the solver's choosing;
\* the solution does not move.
OdeintProbe ==
    /\ pc = "odeint"
    /\ Len(H) < N
    /\ \E o1 \in ProbeOffsets, o2 \in ProbeOffsets, tp \in ProbeTimes :
         LET ev == Eval("probe", <<y[1] + o1, y[2] + o2>>, tp)
         IN  IF ev.e.exc # "none" THEN Raise(ev)
             ELSE /\ lastEval' = ev
                  /\ inflowSeen' = (inflowSeen \/ ev.e.q # 0)
                  /\ UNCHANGED <<par, pc, err, hstep, ts, y, H, istate,
                                 pipeVars, funVars>>

\* The solver has reached the next output time and writes the row.
OdeintOutput ==
    /\ pc = "odeint"
    /\ Len(H) < N
    /\ ts = t[Len(H) + 1]
    /\ H' = Append(H, y)
    /\ UNCHANGED <<par, pc, err, hstep, ts, y, istate, lastEval, inflowSeen,
                   pipeVars, funVars>>

\* H = odeint(...); h1, h2 = H.T (lines 61-62), and the loop of line 65 starts.
Return(rows) ==
    /\ pc' = "clamp"
    /\ H' = rows
    /\ h1' = [k \in 1..Len(rows) |-> rows[k][1]]
    /\ h2' = [k \in 1..Len(rows) |-> rows[k][2]]
    /\ i' = 0

\* All rows are written: odeint returns.
OdeintReturn ==
    /\ pc = "odeint"
    /\ Len(H) = N
    /\ Return(H)
    /\ UNCHANGED <<par, err, hstep, ts, y, istate, lastEval, inflowSeen,
                   qi, qo, qoArg, funVars>>

\* The solver gives up on a step (the derivative there being nonzero): odeint
\* warns and returns the array, whose remaining rows were never written.
OdeintFail ==
    /\ pc = "odeint"
    /\ Len(H) < N
    /\ lastEval.kind = "step"
    /\ lastEval.e.d # <<0, 0>>
    /\ istate' = -1
    /\ \E rest \in [1..(N - Len(H)) -> Garbage \X Garbage] :
         Return(H \o rest)
    /\ UNCHANGED <<par, err, hstep, ts, y, lastEval, inflowSeen,
                   qi, qo, qoArg, funVars>>

----------------------------------------------------------------------------
\* One iteration of the loop of lines 65-73.
ClampStep ==
    /\ pc = "clamp"
    /\ i < N
    /\ h1' = [h1 EXCEPT ![i + 1] = TrajClamp(h1[i + 1], par.H1)]
    /\ h2' = [h2 EXCEPT ![i + 1] = TrajClamp(h2[i + 1], par.H2)]
    /\ i' = i + 1
    /\ pc' = IF i + 1 = N THEN "plot1" ELSE "clamp"
    /\ UNCHANGED <<par, err, solverVars, qi, qo, qoArg, funVars>>

\* The first figure (lines 75-82): the depths are handed to the plot.
Plot1 ==
    /\ pc = "plot1"
    /\ pc' = "plot2"
    /\ UNCHANGED <<par, err, solverVars, pipeVars, funVars>>

\* The second figure (lines 84-90): the inflow at every grid time and the
\* outflow of pond 2 at every depth sample; a negative sample makes
\* math.sqrt raise.
Plot2 ==
    /\ pc = "plot2"
    /\ qi' = [k \in 1..N |-> q_i_1(t[k])]
    /\ LET out == [k \in 1..N |-> q_o_2(h2[k], par.D2)]
           bad == {k \in 1..N : out[k].a < 0}
           first == CHOOSE k \in bad : \A j \in bad : k <= j
       IN  IF bad = {}
           THEN /\ qo' = [k \in 1..N |-> out[k].q]
                /\ qoArg' = [k \in 1..N |-> out[k].a]
                /\ pc' = "done"
                /\ err' = err
           ELSE /\ qo' = qo
                /\ qoArg' = [k \in 1..first |-> out[k].a]
                /\ pc' = "error"
                /\ err' = "ValueError"
    /\ UNCHANGED <<par, solverVars, h1, h2, i, funVars>>

----------------------------------------------------------------------------
\* The state once lines 51-60 have run.
InitRun ==
    /\ pc = "start"
    /\ err = "none"
    /\ hstep = 0
    /\ ts = 0
    /\ y = <<0, 0>>
    /\ H = <<>>
    /\ istate = 1
    /\ lastEval = NoEval
    /\ inflowSeen = FALSE
    /\ h1 = <<>>
    /\ h2 = <<>>
    /\ i = 0
    /\ qi = <<>>
    /\ qo = <<>>
    /\ qoArg = <<>>
    /\ fn = "none"
    /\ arg = 0
    /\ res = 0

Init ==
    /\ par \in ValidParams
    /\ InitRun

Next ==
    \/ OdeintBegin
    \/ OdeintAdvance
    \/ OdeintProbe
    \/ OdeintOutput
    \/ OdeintReturn
    \/ OdeintFail
    \/ ClampStep
    \/ Plot1
    \/ Plot2

Spec == Init /\ [][Next]_vars

\* The same script run with parameter values of any kind.
InitAnyParams ==
    /\ par \in ValidParams \cup InvalidParams
    /\ InitRun

SpecAnyParams == InitAnyParams /\ [][Next]_vars

----------------------------------------------------------------------------
\* The functions of the script applied on their own, to inputs drawn from
\* bounded sets.

\* Times in ticks: every 450 s from -900 s to 23400 s, the three corners of
\* the hydrograph and the ticks next to them, and the end of the horizon.
TestTimes ==
    {450 * TimeScale * k : k \in -2..52}
    \cup {c * TimeScale + o : c \in {t0, t1, t2}, o \in {-1, 1}}
    \cup {Stop * TimeScale}

TestDepths == -3..8

TestMaxDepths == 0..6

InitFun ==
    /\ par = RefParams
    /\ InitRun

\* q_i_1(t)
ApplyInflow ==
    /\ \E tt \in TestTimes :
         /\ arg' = tt
         /\ res' = q_i_1(tt)
    /\ fn' = "q_i_1"
    /\ UNCHANGED <<par, pc, err, solverVars, pipeVars>>

\* The clamp of f and the clamp of the trajectory loop on the same depth,
\* once and twice over.
ApplyClamp ==
    /\ \E h \in TestDepths, Hmax \in TestMaxDepths :
         /\ arg' = <<h, Hmax>>
         /\ res' = [rhs |-> RhsClamp(h, Hmax),
                    traj |-> TrajClamp(h, Hmax),
                    rhs2 |-> RhsClamp(RhsClamp(h, Hmax), Hmax),
                    traj2 |-> TrajClamp(TrajClamp(h, Hmax), Hmax)]
    /\ fn' = "clamp"
    /\ UNCHANGED <<par, pc, err, solverVars, pipeVars>>

\* t = np.linspace(0, 80 * 3600 + 1, 1000), the grid of the script itself.
ApplyLinspace ==
    /\ arg' = <<0, Stop * TimeScale, NumSamples>>
    /\ res' = linspace(0, Stop * TimeScale, NumSamples)
    /\ fn' = "linspace"
    /\ UNCHANGED <<par, pc, err, solverVars, pipeVars>>

NextFun ==
    \/ ApplyInflow
    \/ ApplyClamp
    \/ ApplyLinspace

SpecFun == InitFun /\ [][NextFun]_vars

----------------------------------------------------------------------------
\* Properties.

\* After the clamp loop the trajectory is handed to the plots and to the
\* discharge derivation.
Clamped == pc \in {"plot1", "plot2", "done"}

InRange(k) ==
    /\ 0 <= h1[k] /\ h1[k] <= par.H1
    /\ 0 <= h2[k] /\ h2[k] <= par.H2

\* C1: every sample the clamp loop has passed, and so every sample of the
\* trajectory handed on to the plots and the discharge derivation, has
\* 0 <= h1 <= H1 and 0 <= h2 <= H2, whatever odeint returned for it.
C1_TrajectoryInRange ==
    /\ pc = "clamp" => \A k \in 1..i : InRange(k)
    /\ Clamped => \A k \in 1..N : InRange(k)

\* A clamped trajectory whose rows, as odeint returned them, held a negative
\* value and a value above the maximum depth for each pond.
C1_Witness ==
    /\ pc = "plot1"
    /\ \E k \in 1..N : H[k][1] < 0
    /\ \E k \in 1..N : H[k][1] > par.H1
    /\ \E k \in 1..N : H[k][2] < 0
    /\ \E k \in 1..N : H[k][2] > par.H2

\* The parameters violate the constraints of the data model.
Invalid(p) ==
    \/ p.D1 <= 0 \/ p.D2 <= 0 \/ p.A1 <= 0 \/ p.A2 <= 0
    \/ p.H1 <= 0 \/ p.H2 <= 0
    \/ p.h1_0 < 0 \/ p.h1_0 > p.H1
    \/ p.h2_0 < 0 \/ p.h2_0 > p.H2

\* C2: with a parameter that is not positive or an initial depth outside
\* [0, H], the script goes no further than an InvalidParameter error: f is
\* never evaluated and no trajectory or discharge series is produced.
C2_Original ==
    Invalid(par) =>
        /\ pc \in {"start", "error"}
        /\ pc = "error" => err = "InvalidParameter"
        /\ lastEval.kind = "none"
        /\ H = <<>> /\ h1 = <<>> /\ h2 = <<>>
        /\ qi = <<>> /\ qo = <<>>

\* C3: once the solver has failed, the script has stopped with an
\* IntegrationError: the clamp loop, the discharge derivation and the plots
\* are not reached.
C3_Original ==
    istate < 0 =>
        /\ pc = "error"
        /\ err = "IntegrationError"

\* C4: no square root is taken of a negative depth: (a) every evaluation of
\* f hands math.sqrt the clamped depths, which are >= 0, whatever state was
\* probed; (b) q_o_2 is applied to the clamped samples of h2 only, so its
\* argument is >= 0; and no evaluation raises.
C4_NoNegativeSqrt ==
    /\ err # "ValueError"
    /\ lastEval.kind # "none" =>
         /\ lastEval.e.exc = "none"
         /\ lastEval.e.a[1] >= 0 /\ lastEval.e.a[2] >= 0
         /\ lastEval.e.a[1] = SqrtArg(Min(Max(lastEval.e.y[1], 0), par.H1))
         /\ lastEval.e.a[2] = SqrtArg(Min(Max(lastEval.e.y[2], 0), par.H2))
    /\ qoArg # <<>> =>
         /\ i = N
         /\ \A k \in 1..Len(qoArg) :
              /\ qoArg[k] >= 0
              /\ qoArg[k] = SqrtArg(Min(Max(H[k][2], 0), par.H2))

\* The discharge series is derived from a trajectory that odeint returned
\* with a negative h2 sample, after a trial evaluation of f at a state with
\* a negative h1 and an h2 above the maximum.
C4_Witness ==
    /\ pc = "done"
    /\ \E k \in 1..N : H[k][2] < 0
    /\ lastEval.kind = "probe"
    /\ lastEval.e.y[1] < 0
    /\ lastEval.e.y[2] > par.H2

\* C5: (0, 0) with zero inflow is a fixed point: every evaluation of f at
\* depths that clamp to (0, 0), at a time of zero inflow, returns (0, 0);
\* and in a run from h1_0 = h2_0 = 0 in which no evaluation of f has seen a
\* nonzero inflow, the solution and every sample produced are (0, 0).
C5_ZeroFixedPoint ==
    /\ (lastEval.kind # "none" /\ lastEval.e.q = 0 /\ lastEval.e.c = <<0, 0>>)
          => lastEval.e.d = <<0, 0>>
    /\ (~inflowSeen /\ par.h1_0 = 0 /\ par.h2_0 = 0) =>
          /\ pc # "start" => y = <<0, 0>>
          /\ \A k \in 1..Len(H) : H[k] = <<0, 0>>
          /\ \A k \in 1..Len(h1) : h1[k] = 0 /\ h2[k] = 0
          /\ \A k \in 1..Len(qo) : qo[k] = 0

\* A complete run from (0, 0) in which the solver stepped over the whole
\* hydrograph and f never saw a nonzero inflow.
C5_Witness ==
    /\ pc = "done"
    /\ ~inflowSeen
    /\ par.h1_0 = 0 /\ par.h2_0 = 0
    /\ lastEval.kind = "step"
    /\ Len(h1) = N

\* C6: q_i_1(t) is 0 for t < 3600 and for t >= 21600 (negative times and
\* times between the grid samples included), 1/4500 * (t - 3600) for
\* 3600 <= t < 12600 and 1/4500 * (21600 - t) for 12600 <= t < 21600.
C6_InflowPiecewise ==
    fn = "q_i_1" =>
        /\ (arg < t0 * TimeScale \/ arg >= t2 * TimeScale) => res = 0
        /\ (t0 * TimeScale <= arg /\ arg < t1 * TimeScale)
              => res = (arg - t0 * TimeScale) * (FlowScale \div (SlopeDen * TimeScale))
        /\ (t1 * TimeScale <= arg /\ arg < t2 * TimeScale)
              => res = (t2 * TimeScale - arg) * (FlowScale \div (SlopeDen * TimeScale))

\* q_i_1 applied to a negative time.
C6_Witness == fn = "q_i_1" /\ arg < 0 /\ res = 0

\* C7: q_i_1(12600) = 2.0, the two ramps agree at t = 12600, and no value of
\* q_i_1 exceeds 2.0.
C7_InflowPeak ==
    fn = "q_i_1" =>
        /\ res <= 2 * FlowScale
        /\ arg = t1 * TimeScale =>
             /\ res = 2 * FlowScale
             /\ RampUp(arg) = RampDown(arg)

\* q_i_1 applied to t = 12600.
C7_Witness == fn = "q_i_1" /\ arg = t1 * TimeScale /\ res > 0

\* C8: the grid of the script has 1000 samples, starts at 0, is strictly
\* increasing and ends at 288000 s.
C8_Original ==
    fn = "linspace" =>
        /\ Len(res) = 1000
        /\ res[1] = 0
        /\ \A k \in 1..(Len(res) - 1) : res[k] < res[k + 1]
        /\ res[Len(res)] = 288000 * TimeScale

\* C10: the clamp of f and the clamp of the trajectory loop both yield
\* min(max(h, 0), H) for every depth h and every H >= 0; each is idempotent
\* and leaves a depth of [0, H] as it is.
C10_ClampsAgree ==
    fn = "clamp" =>
        /\ res.rhs = Min(Max(arg[1], 0), arg[2])
        /\ res.traj = Min(Max(arg[1], 0), arg[2])
        /\ res.rhs2 = res.rhs
        /\ res.traj2 = res.traj
        /\ (0 <= arg[1] /\ arg[1] <= arg[2]) =>
              (res.rhs = arg[1] /\ res.traj = arg[1])

\* Both clamps applied to a depth above a maximum depth of 0.
C10_Witness == fn = "clamp" /\ arg[1] > arg[2] /\ arg[2] = 0 /\ res.rhs = 0

====
